---- MODULE Spec2Model ----
(***************************************************************************)
(* A model of the record store of track (package core): the year/month/day *)
(* sharded record files, the filtered scan with its result queue and stop  *)
(* channel, the exact-day query, the reporter's per-project roll-up, the   *)
(* pause methods of a record, starting and stopping a record, and the two  *)
(* lookups of the latest record.                                           *)
(***************************************************************************)
EXTENDS Integers, Sequences, FiniteSets, TLC

VARIABLES
    fs,        \* the records tree: [dirs: set of paths, files: path -> content]
    last,      \* the last completed call: its name, arguments and results
    scan,      \* the producer closure of AllRecordsFiltered (its locals and position)
    results,   \* the results channel: [buf: queue of FilterResult, closed: BOOLEAN]
    stop,      \* TRUE once the stop channel is closed
    cons,      \* the consumer of the scan (LoadAllRecordsFiltered / FindLatestRecord)
    rep,       \* NewReporter: its inputs, locals and position
    saves,     \* the SaveRecord calls under way: goroutine -> its arguments and position
    held,      \* the *Record a caller holds and edits: <<>> (none) or <<record>>
    del        \* the DeleteRecord call of another goroutine: its argument and position

vars == <<fs, last, scan, results, stop, cons, rep, saves, held, del>>

\* Record constructors list their fields in the order in which the field
\* names first occur in this module.  That is the order TLC sorts a record's
\* fields into, so a record value is never reordered in place while two
\* workers hold it.

----------------------------------------------------------------------------
(* Time.  A time.Time is the number of hours since the zero time           *)
(* 0001-01-01 00:00; the calendar is uniform (every month has             *)
(* DaysPerMonth days).                                                     *)

HoursPerDay == 24
DaysPerMonth == 31
MonthsPerYear == 12

\* util.NoTime, the zero time.Time
NoTime == 0

IsZero(t) == t = NoTime

\* t.Before(u), t.After(u)
Before(t, u) == t < u
After(t, u) == t > u

\* util.Date(year, month, day): midnight of that day
Date(y, m, d) == (((y - 1) * MonthsPerYear + (m - 1)) * DaysPerMonth + (d - 1)) * HoursPerDay

\* a time of day on a date
T(y, m, d, h) == Date(y, m, d) + h

DayNumber(t) == t \div HoursPerDay
Clock(t) == t % HoursPerDay
Day(t) == (DayNumber(t) % DaysPerMonth) + 1
Month(t) == ((DayNumber(t) \div DaysPerMonth) % MonthsPerYear) + 1
Year(t) == (DayNumber(t) \div (DaysPerMonth * MonthsPerYear)) + 1

\* util.ToDate(t): midnight of t's day
ToDate(t) == Date(Year(t), Month(t), Day(t))

----------------------------------------------------------------------------
(* Sequences helpers                                                       *)

Last(s) == s[Len(s)]
Front(s) == SubSeq(s, 1, Len(s) - 1)
Range(s) == {s[i] : i \in 1..Len(s)}

\* util.Reverse
RECURSIVE Reverse(_)
Reverse(s) == IF s = <<>> THEN <<>> ELSE Append(Reverse(Tail(s)), Head(s))

Min(S) == CHOOSE x \in S : \A y \in S : x <= y

\* the elements of a set of integers in ascending order
RECURSIVE SortAsc(_)
SortAsc(S) == IF S = {} THEN <<>> ELSE <<Min(S)>> \o SortAsc(S \ {Min(S)})

----------------------------------------------------------------------------
(* Records                                                                 *)

Record(project, start, end, note, tags, pause) ==
    [Project |-> project, Start |-> start, End |-> end,
     Note |-> note, Tags |-> tags, Pause |-> pause]

Pause(start, end, note) == [Start |-> start, End |-> end, Note |-> note]

\* Record{}
ZeroRecord == Record("", NoTime, NoTime, "", <<>>, <<>>)

HasEnded(r) == ~IsZero(r.End)

----------------------------------------------------------------------------
(* Errors                                                                  *)

\* errors.New / fmt.Errorf values
ErrorString(msg) == [msg |-> msg, type |-> "errorString"]

\* the nil error
Nil == [msg |-> "", type |-> "nil"]

ErrNoRecords == ErrorString("no records for date")
ErrRecordNotFound == ErrorString("record not found")
ErrAlreadyExists == ErrorString("record already exists")
ErrNotExist == ErrorString("record does not exist")

\* the *os.PathError that os.ReadFile returns, with its errno
PathError(errno) == [msg |-> errno, type |-> "PathError"]

----------------------------------------------------------------------------
(* Methods of a record                                                     *)

\* the loop of Check over the pauses still to inspect
RECURSIVE CheckPauses(_, _, _, _)
CheckPauses(r, ps, prevStart, prevEnd) ==
    IF ps = <<>> THEN Nil
    ELSE LET p == Head(ps)
         IN  IF Before(p.Start, r.Start)
             THEN ErrorString("pause starts before record")
             ELSE IF ~IsZero(r.End) /\ After(p.End, r.End)
             THEN ErrorString("pause ends after record")
             ELSE IF After(prevStart, p.Start)
             THEN ErrorString("pause starts not in chronological order")
             ELSE IF After(prevEnd, p.Start)
             THEN ErrorString("pauses overlap")
             ELSE CheckPauses(r, Tail(ps), p.Start, p.End)

\* Record.Check
Check(r) ==
    IF ~IsZero(r.End) /\ Before(r.End, r.Start)
    THEN ErrorString("end time is before start time")
    ELSE CheckPauses(r, r.Pause, NoTime, NoTime)

\* InsertPause that appends without looking at the pauses before
InsertPause_NoCheck(r, start, end, note) ==
    [r |-> [r EXCEPT !.Pause = Append(@, Pause(start, end, note))],
     err |-> Nil]

\* Record.InsertPause: the record after the call and the error
InsertPause(r, start, end, note) ==
    IF Len(r.Pause) = 0 /\ Before(start, r.Start)
    THEN [r |-> r, err |-> ErrorString("start of pause before start of current record")]
    ELSE IF Len(r.Pause) # 0 /\ Before(start, Last(r.Pause).End)
    THEN [r |-> r, err |-> ErrorString("start of pause before end of previous pause")]
    ELSE [r |-> [r EXCEPT !.Pause = Append(@, Pause(start, end, note))],
          err |-> Nil]

\* Record.PopPause
PopPause(r) ==
    IF Len(r.Pause) = 0 THEN [r |-> r, ok |-> FALSE]
    ELSE [r |-> [r EXCEPT !.Pause = Front(@)], ok |-> TRUE]

\* Record.EndPause
EndPause(r, t) ==
    IF Len(r.Pause) = 0 THEN [r |-> r, err |-> ErrorString("no pause to end")]
    ELSE IF ~IsZero(Last(r.Pause).End)
    THEN [r |-> r, err |-> ErrorString("last pause is already ended")]
    ELSE [r |-> [r EXCEPT !.Pause[Len(r.Pause)].End = t], err |-> Nil]

----------------------------------------------------------------------------
(* The file system under RecordsDir().  A path is the sequence of its      *)
(* segments below the records directory: <<year>>, <<year, month>>,        *)
(* <<year, month, day>> for directories, <<year, month, day, file>> for a  *)
(* record file.                                                            *)

EmptyFS == [dirs |-> {}, files |-> <<>>]

\* Track.RecordDir
RecordDir(tm) == <<Year(tm), Month(tm), Day(tm)>>

\* Track.RecordPath: the file is named after the time of day
RecordPath(tm) == Append(RecordDir(tm), Clock(tm))

\* filepath.Dir
Dir(path) == Front(path)

\* fs.FileExists
FileExists(f, path) == path \in DOMAIN f.files

Entries(f, dir) ==
    {p \in f.dirs \cup DOMAIN f.files : Len(p) = Len(dir) + 1 /\ Dir(p) = dir}

\* fs.DirIsEmpty
DirIsEmpty(f, dir) == Entries(f, dir) = {}

\* fs.CreateDir: the directory and every missing parent
CreateDir(f, dir) ==
    [f EXCEPT !.dirs = @ \cup {SubSeq(dir, 1, n) : n \in 1..Len(dir)}]

\* os.Remove of a file, or of a directory (which must be empty)
RECURSIVE Without(_, _, _)
Without(files, paths, path) ==
    IF paths = {} THEN <<>>
    ELSE LET p == CHOOSE q \in paths : TRUE
         IN  IF p = path THEN Without(files, paths \ {p}, path)
             ELSE (p :> files[p]) @@ Without(files, paths \ {p}, path)

Remove(f, path) ==
    IF path \in DOMAIN f.files
    THEN [f EXCEPT !.files = Without(f.files, DOMAIN f.files, path)]
    ELSE IF path \in f.dirs /\ DirIsEmpty(f, path)
    THEN [f EXCEPT !.dirs = @ \ {path}]
    ELSE f

\* os.OpenFile(path, O_WRONLY|O_CREATE|O_TRUNC) followed by the writes
WriteFile(f, path, content) ==
    [f EXCEPT !.files = (path :> content) @@ f.files]

\* os.ReadFile: every failure is a *os.PathError; fault is the errno the
\* read of an existing file meets ("none" when it meets none)
ReadFile(f, path, fault) ==
    IF path \notin DOMAIN f.files THEN [err |-> PathError("ENOENT"), data |-> <<>>]
    ELSE IF fault # "none" THEN [err |-> PathError(fault), data |-> <<>>]
    ELSE [err |-> Nil, data |-> f.files[path]]

----------------------------------------------------------------------------
(* The record file format: a comment line with the start time, then one    *)
(* line for each of project, start, end, note and tags and one line for    *)
(* each pause.  The times are written relative to the day of the date the  *)
(* caller gives (the record's own day when it gives the zero time, as      *)
(* SaveRecord does) and read back against the day of the date LoadRecord   *)
(* gives; an absent time is written as null.  A file holds bytes: a line   *)
(* is as long as what it says, so the texts of two records differ in       *)
(* length as their fields do.                                              *)

CommentPrefix == "#"

EncodeTime(t, base) ==
    IF IsZero(t) THEN [null |-> TRUE, time |-> NoTime]
    ELSE [null |-> FALSE, time |-> t - base]
DecodeTime(v, base) == IF v.null THEN NoTime ELSE base + v.time

Line(key, val) == [key |-> key, val |-> val]

\* the number of bytes of a line: its key and line end, and its value, a
\* time taking more than null, a text (of one letter at most here) more
\* than none, every tag its own; a comment line is as long as any other
Width(l) ==
    LET OfTime(v) == IF v.null THEN 1 ELSE 2
        OfText(str) == IF str = "" THEN 0 ELSE 1
    IN  1 + CASE l.key \in {"start", "end"} -> OfTime(l.val)
              [] l.key = "tags" -> Len(l.val)
              [] l.key = "pause" ->
                     OfTime(l.val.start) + OfTime(l.val.end) + OfText(l.val.note)
              [] l.key \in {"project", "note"} -> OfText(l.val)
              [] OTHER -> 0

\* the bytes of a line, each one knowing its line and its place in it
Bytes(l) == [i \in 1..Width(l) |-> [line |-> l, at |-> i]]

RECURSIVE EncodePauses(_, _)
EncodePauses(ps, base) ==
    IF ps = <<>> THEN <<>>
    ELSE <<Line("pause", [start |-> EncodeTime(Head(ps).Start, base),
                          end |-> EncodeTime(Head(ps).End, base),
                          note |-> Head(ps).Note])>> \o EncodePauses(Tail(ps), base)

RECURSIVE DecodePauses(_, _)
DecodePauses(ls, base) ==
    IF ls = <<>> THEN <<>>
    ELSE <<Pause(DecodeTime(Head(ls).val.start, base), DecodeTime(Head(ls).val.end, base),
                 Head(ls).val.note)>> \o DecodePauses(Tail(ls), base)

\* SerializeRecord(record, date): the text is as long as its fields make it
SerializeRecord(r, date) ==
    LET base == ToDate(IF IsZero(date) THEN r.Start ELSE date)
        RECURSIVE Text(_)
        Text(lines) ==
            IF lines = <<>> THEN <<>> ELSE Bytes(Head(lines)) \o Text(Tail(lines))
    IN  Text(<< Line("project", r.Project),
                Line("start", EncodeTime(r.Start, base)),
                Line("end", EncodeTime(r.End, base)),
                Line("note", r.Note),
                Line("tags", r.Tags) >> \o EncodePauses(r.Pause, base))

\* the bytes are whole lines, every line starting after the end of the one
\* before, running to its end and cut nowhere, and the lines that are no
\* comment are the field lines in their order, then pause lines only
WellFormed(data, lines) ==
    LET FieldKeys == <<"project", "start", "end", "note", "tags">>
    IN  /\ \A p \in 1..Len(data) :
               LET byte == data[p]
               IN  /\ byte.at \in 1..Width(byte.line)
                   /\ IF byte.at = 1
                      THEN p = 1 \/ data[p - 1].at = Width(data[p - 1].line)
                      ELSE p > 1 /\ data[p - 1] = [line |-> byte.line, at |-> byte.at - 1]
                   /\ p = Len(data) => byte.at = Width(byte.line)
        /\ Len(lines) >= Len(FieldKeys)
        /\ \A i \in 1..Len(lines) :
               lines[i].key = (IF i <= Len(FieldKeys) THEN FieldKeys[i] ELSE "pause")

\* DeserializeRecord(text, date): comment lines are skipped; a text that is
\* not a record, a line cut short in it, is an error
DeserializeRecord(data, date) ==
    LET first == SelectSeq(data, LAMBDA byte : byte.at = 1 /\ byte.line.key # CommentPrefix)
        lines == [i \in 1..Len(first) |-> first[i].line]
        base == ToDate(date)
    IN  IF ~WellFormed(data, lines)
        THEN [err |-> ErrorString("invalid record format"), record |-> ZeroRecord]
        ELSE [err |-> Nil,
              record |-> Record(lines[1].val, DecodeTime(lines[2].val, base),
                                DecodeTime(lines[3].val, base), lines[4].val, lines[5].val,
                                DecodePauses(SubSeq(lines, 6, Len(lines)), base))]

----------------------------------------------------------------------------
(* Record store operations                                                 *)

\* the call of SaveRecord that fails, "none" when none does
SaveFaults == {"none", "CreateDir", "OpenFile", "Fprintf", "WriteString"}

\* SaveRecord from fs.CreateDir on; a call that fails returns its error and
\* what the calls before it did stays: the directories after CreateDir, the
\* empty file after os.OpenFile, the comment line after Fprintf
SaveWrite(f, record, fault) ==
    LET path == RecordPath(record.Start)
        made == CreateDir(f, RecordDir(record.Start))
        header == Bytes(Line(CommentPrefix, record.Start))
    IN  IF fault = "CreateDir" THEN [fs |-> f, err |-> PathError("EIO")]
        ELSE IF fault = "OpenFile" THEN [fs |-> made, err |-> PathError("EIO")]
        ELSE IF fault = "Fprintf" THEN [fs |-> WriteFile(made, path, <<>>), err |-> PathError("EIO")]
        ELSE IF fault = "WriteString"
        THEN [fs |-> WriteFile(made, path, header), err |-> PathError("EIO")]
        ELSE [fs |-> WriteFile(made, path, header \o SerializeRecord(record, NoTime)),
              err |-> Nil]

\* SaveRecord without the check for an existing file
SaveRecord_NoExistsCheck(f, record, force, fault) == SaveWrite(f, record, fault)

\* Track.SaveRecord
SaveRecord(f, record, force, fault) ==
    IF ~force /\ FileExists(f, RecordPath(record.Start))
    THEN [fs |-> f, err |-> ErrAlreadyExists]
    ELSE SaveWrite(f, record, fault)

\* DeleteRecord that stops the cascade at the day directory
DeleteRecord_DayOnly(f, record) ==
    LET path == RecordPath(record.Start)
        f1 == Remove(f, path)
    IN  IF ~FileExists(f, path) THEN [fs |-> f, err |-> ErrNotExist]
        ELSE [fs |-> Remove(f1, Dir(path)), err |-> Nil]

\* Track.DeleteRecord
DeleteRecord(f, record) ==
    LET path == RecordPath(record.Start)
        f1 == Remove(f, path)
        dayDir == Dir(path)
        f2 == Remove(f1, dayDir)
        monthDir == Dir(dayDir)
        f3 == Remove(f2, monthDir)
        yearDir == Dir(monthDir)
        f4 == Remove(f3, yearDir)
    IN  IF ~FileExists(f, path) THEN [fs |-> f, err |-> ErrNotExist]
        ELSE IF ~DirIsEmpty(f1, dayDir) THEN [fs |-> f1, err |-> Nil]
        ELSE IF ~DirIsEmpty(f2, monthDir) THEN [fs |-> f2, err |-> Nil]
        ELSE IF ~DirIsEmpty(f3, yearDir) THEN [fs |-> f3, err |-> Nil]
        ELSE [fs |-> f4, err |-> Nil]

\* Track.DeleteRecord interrupted after the first n calls of os.Remove
DeleteRecordInterrupted(f, record, n) ==
    LET path == RecordPath(record.Start)
        f1 == Remove(f, path)
        dayDir == Dir(path)
        f2 == Remove(f1, dayDir)
        monthDir == Dir(dayDir)
        f3 == Remove(f2, monthDir)
    IN  IF ~FileExists(f, path) THEN f
        ELSE IF n = 1 \/ ~DirIsEmpty(f1, dayDir) THEN f1
        ELSE IF n = 2 \/ ~DirIsEmpty(f2, monthDir) THEN f2
        ELSE f3

\* Track.LoadRecord
LoadRecord(f, tm, fault) ==
    LET rd == ReadFile(f, RecordPath(tm), fault)
    IN  IF rd.err # Nil
        THEN (IF rd.err.type = "PathError"
              THEN [err |-> ErrRecordNotFound, record |-> ZeroRecord]
              ELSE [err |-> rd.err, record |-> ZeroRecord])
        ELSE DeserializeRecord(rd.data, tm)

----------------------------------------------------------------------------
(* Filters                                                                 *)

\* FilterByProjects
FilterByProjects(projects) == [projects |-> projects, kind |-> "projects"]

\* FilterByTime
FilterByTime(start, end) == [start |-> start, end |-> end, kind |-> "time"]

\* a FilterFunction that returns true for every record
FilterAny == [kind |-> "any"]

\* a FilterFunction applied to a record
Apply(fn, r) ==
    CASE fn.kind = "projects" -> r.Project \in fn.projects
      [] fn.kind = "any" -> TRUE
      [] fn.kind = "time" ->
            IF IsZero(r.End)
            THEN (IsZero(fn.start) \/ After(r.Start, fn.start))
                 /\ (IsZero(fn.end) \/ Before(r.Start, fn.end))
            ELSE (IsZero(fn.start) \/ After(r.End, fn.start))
                 /\ (IsZero(fn.end) \/ Before(r.Start, fn.end))

\* FilterFunctions{filters, start, end}
FilterFunctions(fns, start, end) == [Start |-> start, End |-> end, Filters |-> fns]

\* Filter
Filter(record, filters) ==
    \A i \in 1..Len(filters.Filters) : Apply(filters.Filters[i], record)

----------------------------------------------------------------------------
(* Loading the records of a day                                            *)

\* the error of time.ParseInLocation for a name that is not a time
ErrParse == [msg |-> "cannot parse", type |-> "ParseError"]

\* fileToTime
fileToTime(date, file) ==
    IF file < 0 THEN [err |-> ErrParse, tm |-> NoTime]
    ELSE [err |-> Nil, tm |-> ToDate(date) + file]

IsDir(f, path) == path \in f.dirs

\* os.FileInfo of a directory entry
FileInfo(f, path) == [IsDir |-> IsDir(f, path), Name |-> Last(path)]

RECURSIVE FileInfos(_, _, _)
FileInfos(f, dir, names) ==
    IF names = <<>> THEN <<>>
    ELSE <<FileInfo(f, Append(dir, Head(names)))>> \o FileInfos(f, dir, Tail(names))

\* ioutil.ReadDir: the entries of the directory, sorted by name; the records
\* directory itself always exists; fault is the errno the listing of an
\* existing directory meets ("none" when it meets none)
ReadDir(f, dir, fault) ==
    IF dir # <<>> /\ ~IsDir(f, dir)
    THEN [err |-> PathError("ENOENT"), entries |-> <<>>]
    ELSE IF fault # "none" THEN [err |-> PathError(fault), entries |-> <<>>]
    ELSE [err |-> Nil,
          entries |-> FileInfos(f, dir, SortAsc({Last(p) : p \in Entries(f, dir)}))]

\* the fault a read of path meets; unreadable is the set of the paths,
\* files or directories, whose read fails
FaultAt(path, unreadable) == IF path \in unreadable THEN "EACCES" ELSE "none"

\* os.Stat finds the path
Exists(f, path) == IsDir(f, path) \/ FileExists(f, path)

\* the error of LoadDateRecordsFiltered for a day path that is a file
ErrNotADirectory == ErrorString("is not a directory")

\* one iteration of the loop of LoadDateRecordsFiltered, over the entry
\* info: the error of fileToTime is dropped and the time it returned is
\* loaded; unreadable is the set of paths whose read fails
LoadFile(f, date, info, filters, unreadable, records) ==
    LET tm == fileToTime(date, info.Name).tm
        ld == LoadRecord(f, tm, FaultAt(RecordPath(tm), unreadable))
    IN  IF info.IsDir THEN [err |-> Nil, records |-> records]
        ELSE IF ld.err # Nil THEN [err |-> ld.err, records |-> <<>>]
        ELSE [err |-> Nil,
              records |-> IF Filter(ld.record, filters)
                          THEN Append(records, ld.record) ELSE records]

\* the loop of LoadDateRecordsFiltered over the entries still to read
RECURSIVE LoadFiles(_, _, _, _, _, _)
LoadFiles(f, date, names, filters, unreadable, records) ==
    IF names = <<>> THEN [err |-> Nil, records |-> records]
    ELSE LET one == LoadFile(f, date, Head(names), filters, unreadable, records)
         IN  IF one.err # Nil THEN one
             ELSE LoadFiles(f, date, Tail(names), filters, unreadable, one.records)

\* Track.LoadDateRecordsFiltered, with no other call between its statements
LoadDateRecordsFiltered(f, date, filters, unreadable) ==
    LET subPath == RecordDir(date)
        rd == ReadDir(f, subPath, FaultAt(subPath, unreadable))
    IN  IF ~Exists(f, subPath) THEN [err |-> ErrNoRecords, records |-> <<>>]
        ELSE IF ~IsDir(f, subPath) THEN [err |-> ErrNotADirectory, records |-> <<>>]
        ELSE IF rd.err # Nil THEN [err |-> rd.err, records |-> <<>>]
        ELSE LoadFiles(f, date, rd.entries, filters, unreadable, <<>>)

\* Track.LoadDateRecordsExact
LoadDateRecordsExact(f, dateArg) ==
    LET date == ToDate(dateArg)
        dateBefore == date - HoursPerDay
        dateAfter == date + HoursPerDay
        filters == FilterFunctions(<<FilterByTime(date, dateAfter)>>, NoTime, NoTime)
        r1 == LoadDateRecordsFiltered(f, dateBefore, filters, {})
        r2 == LoadDateRecordsFiltered(f, date, filters, {})
        records == r1.records \o r2.records
    IN  IF r1.err # Nil /\ r1.err # ErrNoRecords THEN [err |-> r1.err, records |-> <<>>]
        ELSE IF r2.err # Nil /\ r2.err # ErrNoRecords THEN [err |-> r2.err, records |-> <<>>]
        ELSE IF Len(records) = 0 THEN [err |-> ErrNoRecords, records |-> <<>>]
        ELSE [err |-> Nil, records |-> records]

----------------------------------------------------------------------------
(* The latest record, starting and stopping                                *)

ErrNoFiles == ErrorString("no files")
ErrNoRunning == ErrorString("no running record")

Max(S) == CHOOSE x \in S : \A y \in S : x >= y

\* fs.FindLatests: the entry of the directory with the greatest name among
\* the directories (isDir) or among the files
FindLatests(f, dir, isDir) ==
    LET names == {Last(p) : p \in {q \in Entries(f, dir) : IsDir(f, q) = isDir}}
    IN  IF names = {} THEN [err |-> ErrNoFiles, name |-> 0]
        ELSE [err |-> Nil, name |-> Max(names)]

\* pathToTime
pathToTime(y, m, d, file) ==
    IF y < 0 \/ m < 0 \/ d < 0 \/ file < 0 THEN [err |-> ErrParse, tm |-> NoTime]
    ELSE [err |-> Nil, tm |-> T(y, m, d, file)]

\* LatestRecord, lines 606-616: the path of the latest file is parsed and the
\* record at that time is loaded; path is <<year, month, day, file>>
LoadLatest(f, path) ==
    LET tm == pathToTime(path[1], path[2], path[3], path[4])
        ld == LoadRecord(f, tm.tm, "none")
    IN  IF tm.err # Nil THEN [err |-> tm.err, record |-> ZeroRecord, found |-> FALSE]
        ELSE IF ld.err # Nil THEN [err |-> ld.err, record |-> ZeroRecord, found |-> FALSE]
        ELSE [err |-> Nil, record |-> ld.record, found |-> TRUE]

\* LatestRecord, the test after each FindLatestRecord: ErrNoFiles gives the
\* nil record and no error, any other error is returned
NoLatest(err) ==
    [err |-> IF err = ErrNoFiles THEN Nil ELSE err,
     record |-> ZeroRecord, found |-> FALSE]

\* Track.LatestRecord; found is FALSE for the nil record
LatestRecord(f) ==
    LET year == FindLatests(f, <<>>, TRUE)
        month == FindLatests(f, <<year.name>>, TRUE)
        day == FindLatests(f, <<year.name, month.name>>, TRUE)
        file == FindLatests(f, <<year.name, month.name, day.name>>, FALSE)
    IN  IF year.err # Nil THEN NoLatest(year.err)
        ELSE IF month.err # Nil THEN NoLatest(month.err)
        ELSE IF day.err # Nil THEN NoLatest(day.err)
        ELSE IF file.err # Nil THEN NoLatest(file.err)
        ELSE CHOOSE latest \in
                 {LoadLatest(f, path) :
                      path \in {<<year.name, month.name, day.name, file.name>>}} : TRUE

\* Track.OpenRecord
OpenRecord(f) ==
    LET latest == LatestRecord(f)
    IN  IF latest.err # Nil
        THEN [err |-> latest.err, record |-> ZeroRecord, found |-> FALSE]
        ELSE IF ~latest.found \/ HasEnded(latest.record)
        THEN [err |-> Nil, record |-> ZeroRecord, found |-> FALSE]
        ELSE latest

\* Track.StartRecord
StartRecord(f, project, note, tags, start, fault) ==
    SaveRecord(f, Record(project, start, NoTime, note, tags, <<>>), FALSE, fault)

\* a stop that keeps every pause
StopPauses_KeepAll(record, end) == record

\* StopRecord: the loop that drops the trailing pauses that are open or end
\* after the stop time
RECURSIVE StopPauses(_, _)
StopPauses(record, end) ==
    IF Len(record.Pause) > 0
       /\ (IsZero(Last(record.Pause).End) \/ After(Last(record.Pause).End, end))
    THEN StopPauses([record EXCEPT !.End = Last(record.Pause).Start,
                                   !.Pause = Front(record.Pause)], end)
    ELSE record

\* Track.StopRecord
StopRecord(f, end, fault) ==
    LET open == OpenRecord(f)
        record == StopPauses([open.record EXCEPT !.End = end], end)
        saved == SaveRecord(f, record, TRUE, fault)
    IN  IF open.err # Nil THEN [fs |-> f, err |-> open.err, record |-> ZeroRecord]
        ELSE IF ~open.found THEN [fs |-> f, err |-> ErrNoRunning, record |-> ZeroRecord]
        ELSE [fs |-> saved.fs, err |-> saved.err, record |-> record]

----------------------------------------------------------------------------
(* The scan: AllRecordsFiltered returns a producer closure, the results    *)
(* channel and the stop channel.  The producer runs as a goroutine; each   *)
(* action below is one step of it between two accesses to the file system  *)
(* or to a channel.                                                        *)

\* capacity of the results channel.  The code makes it 32; the stores of the
\* model hold at most MaxRecords records, so the capacity is scaled down to
\* keep a full channel reachable.
QueueCap == 2

\* FilterResult{record, err}
FilterResult(record, err) == [Record |-> record, Err |-> err]

NoFilters == FilterFunctions(<<>>, NoTime, NoTime)

IdleScan ==
    [err |-> Nil, files |-> <<>>, filters |-> NoFilters, unreadable |-> {},
     year |-> 0, month |-> 0, day |-> 0, pc |-> "idle",
     reversed |-> FALSE, yearDirs |-> <<>>, monthDirs |-> <<>>,
     dayDirs |-> <<>>, recs |-> <<>>, pushed |-> <<>>,
     visited |-> {}, mutated |-> FALSE, loaded |-> <<>>]

\* no DeleteRecord call under way
IdleDel == [err |-> Nil, record |-> ZeroRecord, pc |-> "idle", level |-> 0]

IdleCons ==
    [err |-> Nil, record |-> ZeroRecord, records |-> <<>>, found |-> FALSE,
     pc |-> "idle", op |-> "none"]

Running == scan.pc \notin {"idle", "done"}

\* a walk that never reverses a listing
Ordered_Never(reversed, names) == names

\* the listing in the order the walk visits it
Ordered(reversed, names) == IF reversed THEN Reverse(names) ELSE names

\* AllRecordsFiltered and `go fn()`: fresh channels and a started producer
AllRecordsFiltered(op, filters, reversed, unreadable) ==
    /\ scan.pc = "idle"
    /\ scan' = [IdleScan EXCEPT !.pc = "start", !.reversed = reversed,
                                !.filters = filters, !.unreadable = unreadable]
    /\ results' = [buf |-> <<>>, closed |-> FALSE]
    /\ stop' = FALSE
    /\ cons' = [IdleCons EXCEPT !.op = op, !.pc = "recv"]
    /\ UNCHANGED <<fs, last, rep, saves, held, del>>

\* the producer returns: what is left of it is the deferred close(results)
Return(sc) == [sc EXCEPT !.pc = "return"]

\* the error of strconv.Atoi
ErrSyntax == [msg |-> "invalid syntax", type |-> "NumError"]

\* strconv.Atoi of the name of an entry.  The names of the tree are modelled
\* by integers: a natural number stands for its numeral, a negative number
\* for a name that is not a numeral
Atoi(name) ==
    IF name < 0 THEN [err |-> ErrSyntax, val |-> 0] ELSE [err |-> Nil, val |-> name]

\* yearDirs, err := ioutil.ReadDir(path)
ListYears ==
    /\ scan.pc = "start"
    /\ LET rd == ReadDir(fs, <<>>, FaultAt(<<>>, scan.unreadable))
       IN  scan' = IF rd.err # Nil
                   THEN [scan EXCEPT !.pc = "pusherr", !.err = rd.err,
                                     !.visited = @ \cup {<<>>}]
                   ELSE [scan EXCEPT !.pc = "year",
                                     !.yearDirs = Ordered(scan.reversed, rd.entries),
                                     !.visited = @ \cup {<<>>}]
    /\ UNCHANGED <<fs, last, results, stop, cons, rep, saves, held, del>>

\* the year is outside the date bound of the filters
YearPruned(filters, year) ==
    \/ ~IsZero(filters.Start) /\ year < Year(filters.Start)
    \/ ~IsZero(filters.End) /\ year > Year(filters.End)

\* the day compared with the start bound as given, time of day included
DayPruned_NoToDate(filters, date) ==
    \/ ~IsZero(filters.Start) /\ Before(date, filters.Start)
    \/ ~IsZero(filters.End) /\ After(date, filters.End)

\* the day is outside the date bound of the filters
DayPruned(filters, date) ==
    \/ ~IsZero(filters.Start) /\ Before(date, ToDate(filters.Start))
    \/ ~IsZero(filters.End) /\ After(date, filters.End)

\* one iteration of the loop over yearDirs, up to the listing of its months
NextYear ==
    /\ scan.pc = "year"
    /\ IF scan.yearDirs = <<>>
       THEN scan' = Return(scan)
       ELSE LET conv == Atoi(Head(scan.yearDirs).Name)
                year == conv.val
                rd == ReadDir(fs, <<year>>, FaultAt(<<year>>, scan.unreadable))
            IN  IF ~Head(scan.yearDirs).IsDir
                THEN scan' = [scan EXCEPT !.yearDirs = Tail(@)]
                ELSE IF conv.err # Nil
                THEN scan' = [scan EXCEPT !.yearDirs = Tail(@), !.pc = "pusherr",
                                          !.err = conv.err]
                ELSE IF YearPruned(scan.filters, year)
                THEN scan' = [scan EXCEPT !.yearDirs = Tail(@)]
                ELSE IF rd.err # Nil
                THEN scan' = [scan EXCEPT !.yearDirs = Tail(@), !.pc = "pusherr",
                                          !.err = rd.err, !.visited = @ \cup {<<year>>}]
                ELSE scan' = [scan EXCEPT
                         !.yearDirs = Tail(@), !.year = year, !.pc = "month",
                         !.monthDirs = Ordered(scan.reversed, rd.entries),
                         !.visited = @ \cup {<<year>>}]
    /\ UNCHANGED <<fs, last, results, stop, cons, rep, saves, held, del>>

\* one iteration of the loop over monthDirs, up to the listing of its days
NextMonth ==
    /\ scan.pc = "month"
    /\ IF scan.monthDirs = <<>>
       THEN scan' = [scan EXCEPT !.pc = "year"]
       ELSE LET conv == Atoi(Head(scan.monthDirs).Name)
                month == conv.val
                rd == ReadDir(fs, <<scan.year, month>>,
                              FaultAt(<<scan.year, month>>, scan.unreadable))
            IN  IF ~Head(scan.monthDirs).IsDir
                THEN scan' = [scan EXCEPT !.monthDirs = Tail(@)]
                ELSE IF conv.err # Nil
                THEN scan' = [scan EXCEPT !.monthDirs = Tail(@), !.pc = "pusherr",
                                          !.err = conv.err]
                ELSE IF rd.err # Nil
                THEN scan' = [scan EXCEPT !.monthDirs = Tail(@), !.pc = "pusherr",
                                          !.err = rd.err,
                                          !.visited = @ \cup {<<scan.year, month>>}]
                ELSE scan' = [scan EXCEPT
                         !.monthDirs = Tail(@), !.month = month, !.pc = "day",
                         !.dayDirs = Ordered(scan.reversed, rd.entries),
                         !.visited = @ \cup {<<scan.year, month>>}]
    /\ UNCHANGED <<fs, last, results, stop, cons, rep, saves, held, del>>

\* one iteration of the loop over dayDirs, up to the os.Stat of the day
\* directory in LoadDateRecordsFiltered
NextDay ==
    /\ scan.pc = "day"
    /\ IF scan.dayDirs = <<>>
       THEN scan' = [scan EXCEPT !.pc = "month"]
       ELSE LET conv == Atoi(Head(scan.dayDirs).Name)
                day == conv.val
                date == Date(scan.year, scan.month, day)
                subPath == RecordDir(date)
            IN  IF ~Head(scan.dayDirs).IsDir
                THEN scan' = [scan EXCEPT !.dayDirs = Tail(@)]
                ELSE IF conv.err # Nil
                THEN scan' = [scan EXCEPT !.dayDirs = Tail(@), !.pc = "pusherr",
                                          !.err = conv.err]
                ELSE IF DayPruned(scan.filters, date)
                THEN scan' = [scan EXCEPT !.dayDirs = Tail(@)]
                ELSE IF ~Exists(fs, subPath)
                THEN scan' = [scan EXCEPT !.dayDirs = Tail(@), !.pc = "pusherr",
                                          !.err = ErrNoRecords,
                                          !.visited = @ \cup {subPath}]
                ELSE IF ~IsDir(fs, subPath)
                THEN scan' = [scan EXCEPT !.dayDirs = Tail(@), !.pc = "pusherr",
                                          !.err = ErrNotADirectory,
                                          !.visited = @ \cup {subPath}]
                ELSE scan' = [scan EXCEPT !.dayDirs = Tail(@), !.pc = "readdir",
                                          !.day = day,
                                          !.visited = @ \cup {subPath}]
    /\ UNCHANGED <<fs, last, results, stop, cons, rep, saves, held, del>>

\* the day is loaded: the scan reverses its records in reverse mode and
\* goes on to push them
DayLoaded(sc, records) ==
    [sc EXCEPT !.recs = Ordered(sc.reversed, records),
               !.pc = IF records = <<>> THEN "day" ELSE "push",
               !.files = <<>>, !.loaded = <<>>]

\* LoadDateRecordsFiltered: ioutil.ReadDir of the day directory
DayReadDir ==
    /\ scan.pc = "readdir"
    /\ LET rd == ReadDir(fs, <<scan.year, scan.month, scan.day>>,
                         FaultAt(<<scan.year, scan.month, scan.day>>, scan.unreadable))
       IN  scan' = IF rd.err # Nil
                   THEN [scan EXCEPT !.pc = "pusherr", !.err = rd.err]
                   ELSE IF rd.entries = <<>> THEN DayLoaded(scan, <<>>)
                   ELSE [scan EXCEPT !.pc = "file", !.files = rd.entries,
                                     !.loaded = <<>>]
    /\ UNCHANGED <<fs, last, results, stop, cons, rep, saves, held, del>>

\* LoadDateRecordsFiltered: one iteration of the loop over the files, with
\* the os.ReadFile of LoadRecord; after the last one the function returns
DayLoadFile ==
    /\ scan.pc = "file"
    /\ LET one == LoadFile(fs, Date(scan.year, scan.month, scan.day), Head(scan.files),
                           scan.filters, scan.unreadable, scan.loaded)
       IN  scan' = IF one.err # Nil
                   THEN [scan EXCEPT !.pc = "pusherr", !.err = one.err,
                                     !.files = <<>>, !.loaded = <<>>]
                   ELSE IF Tail(scan.files) = <<>> THEN DayLoaded(scan, one.records)
                   ELSE [scan EXCEPT !.files = Tail(@), !.loaded = one.records]
    /\ UNCHANGED <<fs, last, results, stop, cons, rep, saves, held, del>>

\* select { case <-stop: return; case results <- FilterResult{rec, nil}: }
\* when both cases are ready the runtime picks either
Push ==
    /\ scan.pc = "push"
    /\ \/ /\ stop
          /\ scan' = Return(scan)
          /\ results' = results
       \/ /\ Len(results.buf) < QueueCap
          /\ results' = [results EXCEPT !.buf = Append(@, FilterResult(Head(scan.recs), Nil))]
          /\ scan' = [scan EXCEPT !.recs = Tail(@),
                                  !.pushed = Append(@, FilterResult(Head(scan.recs), Nil)),
                                  !.pc = IF Tail(scan.recs) = <<>> THEN "day" ELSE "push"]
    /\ UNCHANGED <<fs, last, stop, cons, rep, saves, held, del>>

\* an error push after which the walk goes on with the next day
PushErr_GoOn ==
    /\ scan.pc = "pusherr"
    /\ Len(results.buf) < QueueCap
    /\ results' = [results EXCEPT !.buf = Append(@, FilterResult(ZeroRecord, scan.err))]
    /\ scan' = [scan EXCEPT !.pc = "day",
                            !.pushed = Append(@, FilterResult(ZeroRecord, scan.err))]
    /\ UNCHANGED <<fs, last, stop, cons, rep, saves, held, del>>

\* results <- FilterResult{Record{}, err}; return
PushErr ==
    /\ scan.pc = "pusherr"
    /\ Len(results.buf) < QueueCap
    /\ results' = [results EXCEPT !.buf = Append(@, FilterResult(ZeroRecord, scan.err))]
    /\ scan' = [Return(scan) EXCEPT !.pushed = Append(@, FilterResult(ZeroRecord, scan.err))]
    /\ UNCHANGED <<fs, last, stop, cons, rep, saves, held, del>>

\* defer close(results): the last step of the producer
CloseResults ==
    /\ scan.pc = "return"
    /\ results' = [results EXCEPT !.closed = TRUE]
    /\ scan' = [scan EXCEPT !.pc = "done"]
    /\ UNCHANGED <<fs, last, stop, cons, rep, saves, held, del>>

Producer ==
       ListYears
    \/ NextYear
    \/ NextMonth
    \/ NextDay
    \/ DayReadDir
    \/ DayLoadFile
    \/ Push
    \/ PushErr
    \/ CloseResults

----------------------------------------------------------------------------
(* The consumers of a scan                                                 *)

\* the loop `for res := range results` of LoadAllRecordsFiltered
RangeResults ==
    /\ cons.pc = "recv"
    /\ cons.op \in {"LoadAllRecordsFiltered", "Caller"}
    /\ IF results.buf # <<>>
       THEN LET res == Head(results.buf)
            IN  /\ results' = [results EXCEPT !.buf = Tail(@)]
                /\ cons' = IF res.Err # Nil
                           THEN [cons EXCEPT !.pc = "returned", !.err = res.Err]
                           ELSE [cons EXCEPT !.records = Append(@, res.Record)]
       ELSE /\ results.closed
            /\ results' = results
            /\ cons' = [cons EXCEPT !.pc = "returned"]
    /\ UNCHANGED <<fs, last, scan, stop, rep, saves, held, del>>

\* a caller of AllRecordsFiltered closes the stop channel and reads no more
Cancel ==
    /\ cons.pc = "recv"
    /\ cons.op = "Caller"
    /\ stop' = TRUE
    /\ cons' = [cons EXCEPT !.pc = "returned"]
    /\ UNCHANGED <<fs, last, scan, results, rep, saves, held, del>>

\* the loop of FindLatestRecord: the receive of the first result, which
\* ends it; an error item is returned, a record goes on to close(stop)
FindLatestReceive ==
    /\ cons.pc = "recv"
    /\ cons.op = "FindLatestRecord"
    /\ IF results.buf # <<>>
       THEN LET res == Head(results.buf)
            IN  /\ results' = [results EXCEPT !.buf = Tail(@)]
                /\ cons' = IF res.Err # Nil
                           THEN [cons EXCEPT !.pc = "returned", !.err = res.Err]
                           ELSE [cons EXCEPT !.pc = "close", !.record = res.Record]
       ELSE /\ results.closed
            /\ results' = results
            /\ cons' = [cons EXCEPT !.pc = "returned"]
    /\ UNCHANGED <<fs, last, scan, stop, rep, saves, held, del>>

\* FindLatestRecord: close(stop) and the return of the record received
FindLatestClose ==
    /\ cons.pc = "close"
    /\ cons.op = "FindLatestRecord"
    /\ stop' = TRUE
    /\ cons' = [cons EXCEPT !.pc = "returned", !.found = TRUE]
    /\ UNCHANGED <<fs, last, scan, results, rep, saves, held, del>>

----------------------------------------------------------------------------
(* Inputs                                                                  *)

\* the start times of the records
Stamps == {T(1, 1, 1, 9), T(1, 1, 2, 0), T(1, 1, 2, 9), T(1, 2, 1, 9), T(2, 1, 1, 9)}

Shapes == 1..3

\* a record starting at start: open and paused an hour later; closed a day
\* later, with a closed pause; closed 15 hours later, without a pause
Shape(start, k) ==
    CASE k = 1 -> Record("p", start, NoTime, "n", <<"t">>, <<Pause(start + 1, NoTime, "")>>)
      [] k = 2 -> Record("q", start, start + 24, "m", <<"t", "u">>,
                         <<Pause(start + 1, start + 2, "x")>>)
      [] k = 3 -> Record("q", start, start + 15, "", <<>>, <<>>)

StoreRecords == {Shape(t, k) : t \in Stamps, k \in Shapes}

\* one record for each start time
AnyRecords == {Shape(t, 1) : t \in Stamps}

ScanRecords == {Shape(t, k) : t \in Stamps, k \in {1, 3}}

\* the most records the store holds
MaxRecords == 2

Faults == {"none", "EACCES"}

ExactDates == {Date(1, 1, 2), T(1, 1, 2, 9), Date(1, 2, 1)}

\* the date bounds <<Start, End>> of a scan
ScanBounds ==
    {<<NoTime, NoTime>>, <<T(1, 1, 2, 9), Date(1, 1, 2)>>,
     <<Date(2, 1, 1), NoTime>>, <<NoTime, T(1, 1, 2, 9)>>}
ScanConds == {<<>>, <<FilterByProjects({"p"})>>}
FindConds == {<<FilterByProjects({"p"})>>, <<FilterByProjects({"p", "q"})>>}
Unreadables ==
    {{}, {RecordPath(T(1, 1, 2, 9))}, {RecordDir(T(1, 1, 2, 9))}, {<<1, 1>>}, {<<1>>}, {<<>>}}

----------------------------------------------------------------------------
(* Calls on the store                                                      *)

Mutated(f) == IF Running /\ f # fs THEN [scan EXCEPT !.mutated = TRUE] ELSE scan

CallSaveRecord(R) ==
    \E record \in R, force \in BOOLEAN :
        LET res == SaveRecord(fs, record, force, "none")
        IN  /\ Cardinality(DOMAIN res.fs.files) <= MaxRecords
            /\ fs' = res.fs
            /\ last' = [err |-> res.err, record |-> record, force |-> force,
                        op |-> "SaveRecord"]
            /\ scan' = Mutated(res.fs)
            /\ UNCHANGED <<results, stop, cons, rep, saves, held, del>>

CallDeleteRecord(R) ==
    \E record \in R :
        LET res == DeleteRecord(fs, record)
        IN  /\ fs' = res.fs
            /\ last' = [err |-> res.err, record |-> record, op |-> "DeleteRecord"]
            /\ scan' = Mutated(res.fs)
            /\ UNCHANGED <<results, stop, cons, rep, saves, held, del>>

CallLoadRecord ==
    \E tm \in Stamps, fault \in Faults :
        LET res == LoadRecord(fs, tm, fault)
        IN  /\ last' = [err |-> res.err, tm |-> tm, fault |-> fault,
                        record |-> res.record, op |-> "LoadRecord"]
            /\ UNCHANGED <<fs, scan, results, stop, cons, rep, saves, held, del>>

CallLoadDateRecordsExact ==
    \E date \in ExactDates :
        LET res == LoadDateRecordsExact(fs, date)
        IN  /\ last' = [err |-> res.err, date |-> date,
                        records |-> res.records, op |-> "LoadDateRecordsExact"]
            /\ UNCHANGED <<fs, scan, results, stop, cons, rep, saves, held, del>>

\* SaveRecord on a file system where one of its calls may fail
CallSaveRecordFault(R) ==
    \E record \in R, force \in BOOLEAN, fault \in SaveFaults :
        LET res == SaveRecord(fs, record, force, fault)
        IN  /\ Cardinality(DOMAIN res.fs.files) <= MaxRecords
            /\ fs' = res.fs
            /\ last' = [err |-> res.err, fault |-> fault, record |-> record,
                        force |-> force, op |-> "SaveRecord"]
            /\ scan' = Mutated(res.fs)
            /\ UNCHANGED <<results, stop, cons, rep, saves, held, del>>

----------------------------------------------------------------------------
(* SaveRecord calls of several goroutines, statement by statement          *)

NoSaves == <<>>

\* a SaveRecord call about to run its first statement
SaveCall(record, force, fault) ==
    [err |-> Nil, fault |-> fault, record |-> record, force |-> force, pc |-> "check",
     off |-> 0]

\* a write of data at offset off through a file descriptor: it replaces as
\* many bytes as it is long and leaves those behind it; what no write has
\* filled reads as zero bytes
WriteAt(content, off, data) ==
    LET end == off + Len(data)
    IN  [i \in 1..(IF end > Len(content) THEN end ELSE Len(content)) |->
            IF i > off /\ i <= end THEN data[i - off]
            ELSE IF i <= Len(content) THEN content[i]
            ELSE [line |-> Line("", ""), at |-> 0]]

\* if !force && fs.FileExists(path) { return error }
SaveCheck == \E g \in DOMAIN saves :
    /\ saves[g].pc = "check"
    /\ saves' = [saves EXCEPT ![g] =
                    IF ~saves[g].force /\ FileExists(fs, RecordPath(saves[g].record.Start))
                    THEN [@ EXCEPT !.err = ErrAlreadyExists, !.pc = "done"]
                    ELSE [@ EXCEPT !.pc = "mkdir"]]
    /\ UNCHANGED <<fs, last, scan, results, stop, cons, rep, held, del>>

\* err := fs.CreateDir(dir); if err != nil { return err }
SaveCreateDir == \E g \in DOMAIN saves :
    /\ saves[g].pc = "mkdir"
    /\ IF saves[g].fault = "CreateDir"
       THEN fs' = fs /\ saves' = [saves EXCEPT ![g].err = PathError("EIO"), ![g].pc = "done"]
       ELSE /\ fs' = CreateDir(fs, RecordDir(saves[g].record.Start))
            /\ saves' = [saves EXCEPT ![g].pc = "open"]
    /\ UNCHANGED <<last, scan, results, stop, cons, rep, held, del>>

\* file, err := os.OpenFile(path, os.O_WRONLY|os.O_CREATE|os.O_TRUNC, 0600);
\* if err != nil { return err }
SaveOpenFile == \E g \in DOMAIN saves :
    /\ saves[g].pc = "open"
    /\ IF saves[g].fault = "OpenFile"
       THEN fs' = fs /\ saves' = [saves EXCEPT ![g].err = PathError("EIO"), ![g].pc = "done"]
       ELSE /\ fs' = WriteFile(fs, RecordPath(saves[g].record.Start), <<>>)
            /\ saves' = [saves EXCEPT ![g].pc = "header", ![g].off = 0]
    /\ UNCHANGED <<last, scan, results, stop, cons, rep, held, del>>

\* _, err = fmt.Fprintf(file, "%s Record %s\n", CommentPrefix, ...);
\* if err != nil { return err }
SaveHeader == \E g \in DOMAIN saves :
    LET path == RecordPath(saves[g].record.Start)
        data == Bytes(Line(CommentPrefix, saves[g].record.Start))
    IN  /\ saves[g].pc = "header"
        /\ IF saves[g].fault = "Fprintf"
           THEN fs' = fs /\ saves' = [saves EXCEPT ![g].err = PathError("EIO"), ![g].pc = "done"]
           ELSE /\ fs' = WriteFile(fs, path, WriteAt(fs.files[path], saves[g].off, data))
                /\ saves' = [saves EXCEPT ![g].pc = "body", ![g].off = @ + Len(data)]
        /\ UNCHANGED <<last, scan, results, stop, cons, rep, held, del>>

\* _, err = file.WriteString(bytes); return err (and the deferred
\* file.Close): a write that fails has written nothing
SaveBody == \E g \in DOMAIN saves :
    LET path == RecordPath(saves[g].record.Start)
        data == SerializeRecord(saves[g].record, NoTime)
    IN  /\ saves[g].pc = "body"
        /\ IF saves[g].fault = "WriteString"
           THEN fs' = fs /\ saves' = [saves EXCEPT ![g].err = PathError("EIO"), ![g].pc = "done"]
           ELSE /\ fs' = WriteFile(fs, path, WriteAt(fs.files[path], saves[g].off, data))
                /\ saves' = [saves EXCEPT ![g].pc = "done", ![g].off = @ + Len(data)]
        /\ UNCHANGED <<last, scan, results, stop, cons, rep, held, del>>

----------------------------------------------------------------------------
(* Calls that scan                                                         *)

\* Track.LoadAllRecordsFiltered
CallLoadAllRecordsFiltered ==
    \E bound \in ScanBounds, fns \in ScanConds, unreadable \in Unreadables :
        AllRecordsFiltered("LoadAllRecordsFiltered", FilterFunctions(fns, bound[1], bound[2]),
                           FALSE, unreadable)

\* FindLatestRecord over a scan in chronological order
CallFindLatestRecord_Chronological ==
    \E fns \in FindConds, unreadable \in Unreadables :
        AllRecordsFiltered("FindLatestRecord", FilterFunctions(fns, NoTime, NoTime),
                           FALSE, unreadable)

\* Track.FindLatestRecord
CallFindLatestRecord ==
    \E fns \in FindConds, unreadable \in Unreadables :
        AllRecordsFiltered("FindLatestRecord", FilterFunctions(fns, NoTime, NoTime),
                           TRUE, unreadable)

\* any other caller of AllRecordsFiltered
CallAllRecordsFiltered ==
    \E bound \in ScanBounds, fns \in ScanConds, reversed \in BOOLEAN :
        AllRecordsFiltered("Caller", FilterFunctions(fns, bound[1], bound[2]), reversed, {})

----------------------------------------------------------------------------
(* Projects and the reporter                                               *)

Project(name, parent) == [Name |-> name, Parent |-> parent]

\* the project tree: the ancestors of a project, nearest first
RECURSIVE Ancestors(_, _)
Ancestors(all, name) ==
    IF all[name].Parent = "" THEN <<>>
    ELSE <<all[name].Parent>> \o Ancestors(all, all[name].Parent)

\* the project tree: all transitive children of a project
Descendants(all, name) == {d \in DOMAIN all : name \in Range(Ancestors(all, d))}

\* Record.Duration: the end, or the current time for an open record, minus the start
Duration(r, now) == (IF IsZero(r.End) THEN now ELSE r.End) - r.Start

\* a selection that leaves out the descendants
EffectiveProjects_Named(all, proj) ==
    IF proj = {} THEN DOMAIN all ELSE proj

\* NewReporter: the effective projects of a requested subset
EffectiveProjects(all, proj) ==
    IF proj = {} THEN DOMAIN all
    ELSE proj \cup UNION {Descendants(all, p) : p \in proj}

\* NewReporter: the loop over the records that sums each project's own time
RECURSIVE DirectTotals(_, _, _)
DirectTotals(records, now, totals) ==
    IF records = <<>> THEN totals
    ELSE LET rec == Head(records)
         IN  DirectTotals(Tail(records), now,
                          [totals EXCEPT ![rec.Project] = @ + Duration(rec, now)])

\* NewReporter: one iteration of `for project := range totals`
RollUp(all, totals, project) ==
    LET anc == {a \in Range(Ancestors(all, project)) : a \in DOMAIN totals}
    IN  [p \in DOMAIN totals |-> IF p \in anc THEN totals[p] + totals[project] ELSE totals[p]]

IdleRep ==
    [projects |-> {}, records |-> <<>>, pc |-> "idle", all |-> <<>>, now |-> NoTime,
     proj |-> {}, totals |-> <<>>, stored |-> <<>>, todo |-> {}]

\* NewReporter up to the roll-up loop; stored is what the store holds, in
\* scan order
NewReporter ==
    /\ rep.pc = "start"
    /\ LET projects == EffectiveProjects(rep.all, rep.proj)
           filters == FilterFunctions(<<FilterByProjects(projects)>>, NoTime, NoTime)
           records == SelectSeq(rep.stored, LAMBDA r : Filter(r, filters))
           totals == DirectTotals(records, rep.now, [p \in projects |-> 0])
       IN  rep' = [rep EXCEPT !.pc = "rollup", !.projects = projects,
                              !.records = records, !.totals = totals, !.todo = projects]
    /\ UNCHANGED <<fs, last, scan, results, stop, cons, saves, held, del>>

\* the roll-up loop ranges over the map in an order the runtime picks
NewReporterRollUp ==
    /\ rep.pc = "rollup"
    /\ IF rep.todo = {}
       THEN rep' = [rep EXCEPT !.pc = "done"]
       ELSE \E project \in rep.todo :
                rep' = [rep EXCEPT !.totals = RollUp(rep.all, rep.totals, project),
                                   !.todo = @ \ {project}]
    /\ UNCHANGED <<fs, last, scan, results, stop, cons, saves, held, del>>

ProjectNames == {"a", "b", "c"}

RECURSIVE Acyclic(_, _, _)
Acyclic(parent, name, n) ==
    \/ parent[name] = ""
    \/ n > 0 /\ Acyclic(parent, parent[name], n - 1)

\* the forests over the project names
Forests ==
    {[name \in ProjectNames |-> Project(name, parent[name])] :
        parent \in {pa \in [ProjectNames -> ProjectNames \cup {""}] :
                        \A name \in ProjectNames :
                            Acyclic(pa, name, Cardinality(ProjectNames))}}

\* the records of a report, oldest first
ReportRecords ==
    << Record("a", T(1, 1, 1, 9), T(1, 1, 1, 10), "", <<>>, <<>>),
       Record("b", T(1, 1, 2, 9), T(1, 1, 2, 11), "", <<>>, <<>>),
       Record("c", T(1, 1, 3, 9), T(1, 1, 3, 13), "", <<>>, <<>>),
       Record("c", T(1, 1, 4, 9), NoTime, "", <<>>, <<>>) >>

ReportNow == T(1, 1, 4, 17)

\* the elements of s at the indices from n on that are in I
RECURSIVE Pick(_, _, _)
Pick(s, I, n) ==
    IF n > Len(s) THEN <<>>
    ELSE (IF n \in I THEN <<s[n]>> ELSE <<>>) \o Pick(s, I, n + 1)

StoredForReport == {Pick(ReportRecords, I, 1) : I \in SUBSET (1..Len(ReportRecords))}

----------------------------------------------------------------------------
(* Starting and stopping                                                   *)

StopStamps == {T(1, 1, 1, 9), T(1, 1, 2, 9), T(1, 2, 1, 9)}

\* an open record with a closed pause and a later closed pause
TwoPauses(start) ==
    Record("p", start, NoTime, "n", <<"t">>,
           <<Pause(start + 1, start + 2, ""), Pause(start + 4, start + 6, "x")>>)

\* records that keep the rules of the pauses: open and paused, closed, open
\* with two closed pauses
StopRecords ==
    {Shape(t, k) : t \in StopStamps, k \in {1, 3}} \cup {TwoPauses(t) : t \in StopStamps}

StopTimes == {T(1, 1, 2, 11), T(1, 1, 2, 14), T(1, 2, 1, 20)}

\* t.StartRecord(project, note, tags, start)
CallStartRecord ==
    \E start \in StopStamps :
        LET res == StartRecord(fs, "q", "", <<>>, start, "none")
        IN  /\ Cardinality(DOMAIN res.fs.files) <= MaxRecords
            /\ fs' = res.fs
            /\ last' = [start |-> start, err |-> res.err, op |-> "StartRecord"]
            /\ UNCHANGED <<scan, results, stop, cons, rep, saves, held, del>>

\* t.StopRecord(end)
CallStopRecord ==
    \E end \in StopTimes :
        LET res == StopRecord(fs, end, "none")
        IN  /\ fs' = res.fs
            /\ last' = [end |-> end, err |-> res.err, record |-> res.record,
                        op |-> "StopRecord", before |-> OpenRecord(fs).record]
            /\ UNCHANGED <<scan, results, stop, cons, rep, saves, held, del>>

----------------------------------------------------------------------------
(* Calls of the methods of a record and of a filter                        *)

\* the most pauses of a record that is an input
MaxPauses == 2

MethodStart == T(1, 1, 1, 9)

\* pauses around the start of the record, closed, open and inverted
PauseInputs ==
    {Pause(MethodStart + s, IF e = 0 THEN NoTime ELSE MethodStart + e, "") :
        s \in {-1, 1, 2}, e \in {0, 1, 2, 4}}

RECURSIVE PauseSeqs(_)
PauseSeqs(n) ==
    IF n = 0 THEN {<<>>}
    ELSE PauseSeqs(n - 1)
         \cup {Append(ps, p) : ps \in PauseSeqs(n - 1), p \in PauseInputs}

MethodRecords ==
    {Record("p", MethodStart, end, "", <<>>, ps) :
        end \in {NoTime, MethodStart - 1, MethodStart + 3}, ps \in PauseSeqs(MaxPauses)}

InsertStarts == {MethodStart - 1, MethodStart, MethodStart + 1, MethodStart + 2, MethodStart + 4}
InsertEnds == {NoTime, MethodStart + 5}

\* the bounds of a time filter and the records it is applied to
FilterBounds == {NoTime, MethodStart, MethodStart + 1, MethodStart + 3}
FilterRecords ==
    {Record("p", start, end, "", <<>>, <<>>) :
        start \in {MethodStart - 1, MethodStart, MethodStart + 1},
        end \in {NoTime, MethodStart + 1, MethodStart + 2, MethodStart + 3}}

\* no call has been made yet; a behaviour makes one call on one input
Fresh == last.op = "none"

\* r.Check()
CallCheck ==
    \E r \in MethodRecords :
        /\ Fresh
        /\ last' = [err |-> Check(r), record |-> r, op |-> "Check"]
        /\ UNCHANGED <<fs, scan, results, stop, cons, rep, saves, held, del>>

\* r.InsertPause(start, end, note)
CallInsertPause ==
    \E r \in MethodRecords, start \in InsertStarts, end \in InsertEnds :
        LET res == InsertPause(r, start, end, "n")
        IN  /\ Fresh
            /\ last' = [start |-> start, end |-> end, err |-> res.err, record |-> r,
                        op |-> "InsertPause", after |-> res.r]
            /\ UNCHANGED <<fs, scan, results, stop, cons, rep, saves, held, del>>

\* FilterByTime(start, end)(r)
CallFilterByTime ==
    \E start \in FilterBounds, end \in FilterBounds, r \in FilterRecords :
        /\ Fresh
        /\ last' = [start |-> start, end |-> end, ok |-> Apply(FilterByTime(start, end), r),
                    record |-> r, op |-> "FilterByTime"]
        /\ UNCHANGED <<fs, scan, results, stop, cons, rep, saves, held, del>>

----------------------------------------------------------------------------
(* A caller that starts a record, edits its pauses, saves and stops it     *)

EditStart == T(1, 1, 1, 9)

\* the times a pause is given as its start, and the times given as an end
EditStarts == {EditStart - 1, EditStart + 2}
EditEnds == {EditStart + 1, EditStart + 3}

\* record, err := t.StartRecord(project, note, tags, start)
EditStartRecord ==
    LET res == StartRecord(fs, "p", "n", <<>>, EditStart, "none")
    IN  /\ held = <<>>
        /\ fs' = res.fs
        /\ held' = <<Record("p", EditStart, NoTime, "n", <<>>, <<>>)>>
        /\ last' = [start |-> EditStart, err |-> res.err, op |-> "StartRecord"]
        /\ UNCHANGED <<scan, results, stop, cons, rep, saves, del>>

\* record.InsertPause(start, end, note)
EditInsertPause ==
    \E start \in EditStarts, end \in {NoTime, EditStart + 3} :
        LET res == InsertPause(held[1], start, end, "")
        IN  /\ held # <<>>
            /\ Len(held[1].Pause) < MaxPauses
            /\ held' = <<res.r>>
            /\ last' = [start |-> start, end |-> end, err |-> res.err,
                        op |-> "InsertPause"]
            /\ UNCHANGED <<fs, scan, results, stop, cons, rep, saves, del>>

\* record.EndPause(t)
EditEndPause ==
    \E t \in EditEnds :
        LET res == EndPause(held[1], t)
        IN  /\ held # <<>>
            /\ held' = <<res.r>>
            /\ last' = [end |-> t, err |-> res.err, op |-> "EndPause"]
            /\ UNCHANGED <<fs, scan, results, stop, cons, rep, saves, del>>

\* record.PopPause()
EditPopPause ==
    LET res == PopPause(held[1])
    IN  /\ held # <<>>
        /\ held' = <<res.r>>
        /\ last' = [ok |-> res.ok, op |-> "PopPause"]
        /\ UNCHANGED <<fs, scan, results, stop, cons, rep, saves, del>>

\* t.SaveRecord(record, true)
EditSaveRecord ==
    LET res == SaveRecord(fs, held[1], TRUE, "none")
    IN  /\ held # <<>>
        /\ fs' = res.fs
        /\ last' = [err |-> res.err, op |-> "SaveRecord"]
        /\ UNCHANGED <<scan, results, stop, cons, rep, saves, held, del>>

\* record, err := t.StopRecord(end)
EditStopRecord ==
    \E end \in EditEnds :
        LET res == StopRecord(fs, end, "none")
        IN  /\ held # <<>>
            /\ fs' = res.fs
            /\ held' = IF res.err = Nil THEN <<res.record>> ELSE held
            /\ last' = [end |-> end, err |-> res.err, op |-> "StopRecord"]
            /\ UNCHANGED <<scan, results, stop, cons, rep, saves, del>>

----------------------------------------------------------------------------
(* Specifications                                                          *)

Init ==
    /\ fs = EmptyFS
    /\ last = [op |-> "none"]
    /\ scan = IdleScan
    /\ results = [buf |-> <<>>, closed |-> FALSE]
    /\ stop = FALSE
    /\ cons = IdleCons
    /\ rep = IdleRep
    /\ saves = NoSaves
    /\ held = <<>>
    /\ del = IdleDel

\* the record store
Next ==
    \/ CallSaveRecord(StoreRecords)
    \/ CallDeleteRecord(AnyRecords)
    \/ CallLoadRecord
    \/ CallLoadDateRecordsExact

Spec == Init /\ [][Next]_vars

\* the stores that SaveRecord builds from the records of a set
RECURSIVE Build(_, _)
Build(f, R) ==
    IF R = {} THEN f
    ELSE LET r == CHOOSE x \in R : TRUE
         IN  Build(SaveRecord(f, r, TRUE, "none").fs, R \ {r})

ScanStores ==
    {Build(EmptyFS, R) :
        R \in {X \in SUBSET ScanRecords :
                  /\ Cardinality(X) <= MaxRecords
                  /\ \A x, y \in X : x.Start = y.Start => x = y}}

InitScan ==
    /\ fs \in ScanStores
    /\ last = [op |-> "none"]
    /\ scan = IdleScan
    /\ results = [buf |-> <<>>, closed |-> FALSE]
    /\ stop = FALSE
    /\ cons = IdleCons
    /\ rep = IdleRep
    /\ saves = NoSaves
    /\ held = <<>>
    /\ del = IdleDel

\* one scan over a store
NextScan ==
       CallLoadAllRecordsFiltered
    \/ CallFindLatestRecord
    \/ CallAllRecordsFiltered
    \/ Producer
    \/ RangeResults
    \/ Cancel
    \/ FindLatestReceive
    \/ FindLatestClose

SpecScan == InitScan /\ [][NextScan]_vars

\* the reporter
InitReport ==
    /\ fs = EmptyFS
    /\ last = [op |-> "none"]
    /\ scan = IdleScan
    /\ results = [buf |-> <<>>, closed |-> FALSE]
    /\ stop = FALSE
    /\ cons = IdleCons
    /\ saves = NoSaves
    /\ held = <<>>
    /\ del = IdleDel
    /\ \E all \in Forests, proj \in SUBSET ProjectNames, stored \in StoredForReport :
          rep = [IdleRep EXCEPT !.pc = "start", !.all = all, !.proj = proj,
                                !.stored = stored, !.now = ReportNow]

NextReport == NewReporter \/ NewReporterRollUp

SpecReport == InitReport /\ [][NextReport]_vars

\* the methods of a record and the time filter, on bounded inputs
NextRecord == CallCheck \/ CallInsertPause \/ CallFilterByTime

SpecRecord == Init /\ [][NextRecord]_vars

StopStores ==
    {Build(EmptyFS, R) :
        R \in {X \in SUBSET StopRecords :
                  /\ Cardinality(X) <= MaxRecords
                  /\ \A x, y \in X : x.Start = y.Start => x = y}}

InitStop ==
    /\ fs \in StopStores
    /\ last = [op |-> "none"]
    /\ scan = IdleScan
    /\ results = [buf |-> <<>>, closed |-> FALSE]
    /\ stop = FALSE
    /\ cons = IdleCons
    /\ rep = IdleRep
    /\ saves = NoSaves
    /\ held = <<>>
    /\ del = IdleDel

\* starting and stopping records
NextStop == CallStartRecord \/ CallStopRecord

SpecStop == InitStop /\ [][NextStop]_vars

\* the records of the stores that hold other entries or lose entries
FewRecords == {Shape(t, 1) : t \in {T(1, 1, 1, 9), T(1, 1, 2, 9), T(1, 2, 1, 9)}}

FewStores ==
    {Build(EmptyFS, R) : R \in {X \in SUBSET FewRecords : Cardinality(X) <= MaxRecords}}

\* a name that is not a numeral, such as ".git"
Other == -1

\* mkdir of a directory with such a name below dir
WithOtherDir(f, dir) == [f EXCEPT !.dirs = @ \cup {Append(dir, Other)}]

\* a file with such a name in the records directory
WithOtherFile(f) == WriteFile(f, <<Other>>, <<>>)

\* the stores with one entry the store did not make: a directory at the
\* year, month or day level, or a file at the year level
OtherStores ==
    {WithOtherDir(f, dir) : f \in FewStores, dir \in {<<>>, <<1>>, <<1, 1>>}}
    \cup {WithOtherFile(f) : f \in FewStores}

InitOther ==
    /\ fs \in {f \in OtherStores : \A d \in f.dirs : Len(d) > 1 => Dir(d) \in f.dirs}
    /\ last = [op |-> "none"]
    /\ scan = IdleScan
    /\ results = [buf |-> <<>>, closed |-> FALSE]
    /\ stop = FALSE
    /\ cons = IdleCons
    /\ rep = IdleRep
    /\ saves = NoSaves
    /\ held = <<>>
    /\ del = IdleDel

\* one scan over a store with an entry of another name
SpecOther == InitOther /\ [][NextScan]_vars

\* the producer goroutine is scheduled: a push that can proceed does proceed
SpecOtherLive == SpecOther /\ WF_vars(Push) /\ WF_vars(PushErr)

\* Track.DeleteRecord called by another goroutine while a scan is under
\* way, up to its test for the file
CallDeleteRecordDuringScan ==
    \E record \in FewRecords :
        /\ Running
        /\ del.pc \in {"idle", "done"}
        /\ del' = IF ~FileExists(fs, RecordPath(record.Start))
                  THEN [IdleDel EXCEPT !.record = record, !.err = ErrNotExist,
                                       !.pc = "done"]
                  ELSE [IdleDel EXCEPT !.record = record, !.pc = "rmfile"]
        /\ UNCHANGED <<fs, last, scan, results, stop, cons, rep, saves, held>>

\* err := os.Remove(path)
DeleteRemoveFile ==
    LET path == RecordPath(del.record.Start)
    IN  /\ del.pc = "rmfile"
        /\ IF FileExists(fs, path)
           THEN /\ fs' = Remove(fs, path)
                /\ del' = [del EXCEPT !.pc = "isempty", !.level = 3]
           ELSE /\ fs' = fs
                /\ del' = [del EXCEPT !.err = PathError("ENOENT"), !.pc = "done"]
        /\ scan' = Mutated(fs')
        /\ UNCHANGED <<last, results, stop, cons, rep, saves, held>>

\* the directory of the record at the level the cascade has reached:
\* 3 the day, 2 the month, 1 the year
DeleteDir == SubSeq(RecordDir(del.record.Start), 1, del.level)

\* empty, err := fs.DirIsEmpty(dir), for the day, the month and the year
DeleteDirIsEmpty ==
    /\ del.pc = "isempty"
    /\ del' = [del EXCEPT !.pc = IF DirIsEmpty(fs, DeleteDir) THEN "rmdir" ELSE "done"]
    /\ UNCHANGED <<fs, last, scan, results, stop, cons, rep, saves, held>>

\* os.Remove(dir), whose error is dropped, for the day, the month and the year
DeleteRemoveDir ==
    /\ del.pc = "rmdir"
    /\ fs' = Remove(fs, DeleteDir)
    /\ del' = IF del.level = 1 THEN [del EXCEPT !.pc = "done"]
              ELSE [del EXCEPT !.pc = "isempty", !.level = @ - 1]
    /\ scan' = Mutated(fs')
    /\ UNCHANGED <<last, results, stop, cons, rep, saves, held>>

\* two goroutines call SaveRecord with different records of one start time
SaveStamp == T(1, 1, 1, 9)

SaveStores == {EmptyFS, Build(EmptyFS, {Shape(SaveStamp, 3)}), Build(EmptyFS, {Shape(SaveStamp + 1, 3)})}

InitSave ==
    /\ fs \in SaveStores
    /\ last = [op |-> "none"]
    /\ scan = IdleScan
    /\ results = [buf |-> <<>>, closed |-> FALSE]
    /\ stop = FALSE
    /\ cons = IdleCons
    /\ rep = IdleRep
    /\ held = <<>>
    /\ del = IdleDel
    /\ \E j, k \in Shapes, force1, force2 \in BOOLEAN, fault1, fault2 \in SaveFaults :
           /\ j # k
           /\ saves = <<SaveCall(Shape(SaveStamp, j), force1, fault1),
                        SaveCall(Shape(SaveStamp, k), force2, fault2)>>

NextSave == SaveCheck \/ SaveCreateDir \/ SaveOpenFile \/ SaveHeader \/ SaveBody

SpecSave == InitSave /\ [][NextSave]_vars

\* saves, deletes and loads on a file system whose calls may fail, from the
\* empty tree
NextFault ==
       CallSaveRecordFault(FewRecords)
    \/ CallDeleteRecord(FewRecords)
    \/ CallLoadRecord

SpecFault == Init /\ [][NextFault]_vars

\* one record from its start to its stop
NextEdit ==
       EditStartRecord
    \/ EditInsertPause
    \/ EditEndPause
    \/ EditPopPause
    \/ EditSaveRecord
    \/ EditStopRecord

SpecEdit == Init /\ [][NextEdit]_vars

\* the store is changed while no lookup has been made or is under way
Quiet == last.op = "none" /\ scan.pc = "idle"

\* Track.DeleteRecord by a process that is killed before it returns
CallDeleteRecordInterrupted ==
    \E record \in FewRecords, n \in 1..3 :
        /\ Quiet
        /\ FileExists(fs, RecordPath(record.Start))
        /\ fs' = DeleteRecordInterrupted(fs, record, n)
        /\ UNCHANGED <<last, scan, results, stop, cons, rep, saves, held, del>>

\* Track.DeleteRecord that returns
CallDeleteRecordQuiet ==
    \E record \in FewRecords :
        /\ Quiet
        /\ FileExists(fs, RecordPath(record.Start))
        /\ fs' = DeleteRecord(fs, record).fs
        /\ UNCHANGED <<last, scan, results, stop, cons, rep, saves, held, del>>

\* Track.SaveRecord of a record
CallSaveRecordQuiet ==
    \E record \in FewRecords :
        LET res == SaveRecord(fs, record, FALSE, "none")
        IN  /\ Quiet
            /\ Cardinality(DOMAIN res.fs.files) <= MaxRecords
            /\ fs' = res.fs
            /\ UNCHANGED <<last, scan, results, stop, cons, rep, saves, held, del>>

\* t.LatestRecord()
CallLatestRecord ==
    LET res == LatestRecord(fs)
    IN  /\ Quiet
        /\ last' = [err |-> res.err, record |-> res.record, found |-> res.found,
                    op |-> "LatestRecord"]
        /\ UNCHANGED <<fs, scan, results, stop, cons, rep, saves, held, del>>

\* t.FindLatestRecord(func(r *Record) bool { return true })
CallFindLatestRecordAny ==
    \E unreadable \in Unreadables :
        /\ last.op = "LatestRecord"
        /\ AllRecordsFiltered("FindLatestRecord",
                              FilterFunctions(<<FilterAny>>, NoTime, NoTime),
                              TRUE, unreadable)

\* the two lookups of the latest record over one store
NextLatest ==
       CallSaveRecordQuiet
    \/ CallDeleteRecordQuiet
    \/ CallDeleteRecordInterrupted
    \/ CallLatestRecord
    \/ CallFindLatestRecordAny
    \/ Producer
    \/ FindLatestReceive
    \/ FindLatestClose

SpecLatest == Init /\ [][NextLatest]_vars

InitDelete ==
    /\ fs \in FewStores
    /\ last = [op |-> "none"]
    /\ scan = IdleScan
    /\ results = [buf |-> <<>>, closed |-> FALSE]
    /\ stop = FALSE
    /\ cons = IdleCons
    /\ rep = IdleRep
    /\ saves = NoSaves
    /\ held = <<>>
    /\ del = IdleDel

\* one LoadAllRecordsFiltered over a store that loses records meanwhile
NextDelete ==
       CallLoadAllRecordsFiltered
    \/ Producer
    \/ RangeResults
    \/ CallDeleteRecordDuringScan
    \/ DeleteRemoveFile
    \/ DeleteDirIsEmpty
    \/ DeleteRemoveDir

SpecDelete == InitDelete /\ [][NextDelete]_vars

----------------------------------------------------------------------------
(* Properties                                                              *)

\* the records the store holds, one for each file of a day directory
\* what the file at path reads back as, against the time its path names
ReadBack(f, path) ==
    DeserializeRecord(f.files[path], T(path[1], path[2], path[3], path[4]))

Stored(f) ==
    {ReadBack(f, p).record :
         p \in {q \in DOMAIN f.files : Len(q) = 4 /\ ReadBack(f, q).err = Nil}}

RECURSIVE SumOver(_, _)
SumOver(S, fn) ==
    IF S = {} THEN 0
    ELSE LET x == CHOOSE y \in S : TRUE IN fn[x] + SumOver(S \ {x}, fn)

\* a project's own summed record duration in the report
Direct(p) == DirectTotals(rep.records, rep.now, [q \in rep.projects |-> 0])[p]

\* C1: when NewReporter is done, each project's total is its own direct
\* duration plus the direct duration of each of its descendants in the
\* effective set, each counted once, whatever the order of the roll-up.
C1_TotalsCountEachDescendantOnce ==
    rep.pc = "done" =>
        \A p \in rep.projects :
            rep.totals[p] =
                Direct(p) + SumOver(Descendants(rep.all, p) \cap rep.projects,
                                    [d \in rep.projects |-> Direct(d)])

\* C2: an unforced SaveRecord at a start time that already has a file fails
\* with the already-exists error and leaves the store as it was; every other
\* SaveRecord succeeds and the file at that start time then holds the record.
C2_SaveRecordUniqueness ==
    [][last'.op = "SaveRecord" =>
          LET path == RecordPath(last'.record.Start)
          IN  IF ~last'.force /\ FileExists(fs, path)
              THEN last'.err = ErrAlreadyExists /\ fs' = fs
              ELSE /\ last'.err = Nil
                   /\ FileExists(fs', path)
                   /\ ReadBack(fs', path) = [err |-> Nil, record |-> last'.record]]_vars

\* an unforced save was refused because the start time was taken
C2_Witness ==
    /\ last.op = "SaveRecord"
    /\ ~last.force
    /\ last.err = ErrAlreadyExists
    /\ ReadBack(fs, RecordPath(last.record.Start)).record # last.record

\* C4: LoadRecord returns ErrRecordNotFound if and only if no file exists at
\* the time's path; a failed read of an existing file is another error.
C4_NotFoundIffNoFile ==
    last.op = "LoadRecord" =>
        (last.err = ErrRecordNotFound <=> ~FileExists(fs, RecordPath(last.tm)))

\* the directories DeleteRecord is to remove with the file at path: each of
\* the day, month and year directories that is left without an entry
Emptied(f, path) ==
    LET dayDir == Dir(path)
        monthDir == Dir(dayDir)
        yearDir == Dir(monthDir)
        dayEmpty == Entries(f, dayDir) = {path}
        monthEmpty == dayEmpty /\ Entries(f, monthDir) = {dayDir}
        yearEmpty == monthEmpty /\ Entries(f, yearDir) = {monthDir}
    IN  (IF dayEmpty THEN {dayDir} ELSE {})
        \cup (IF monthEmpty THEN {monthDir} ELSE {})
        \cup (IF yearEmpty THEN {yearDir} ELSE {})

\* C5: DeleteRecord of a stored record removes its file and exactly those of
\* its day, month and year directories that are left empty; DeleteRecord of
\* an absent record fails with the not-exists error and changes nothing.
C5_DeleteCascade ==
    [][last'.op = "DeleteRecord" =>
          LET path == RecordPath(last'.record.Start)
          IN  IF ~FileExists(fs, path)
              THEN last'.err = ErrNotExist /\ fs' = fs
              ELSE /\ last'.err = Nil
                   /\ DOMAIN fs'.files = DOMAIN fs.files \ {path}
                   /\ \A p \in DOMAIN fs'.files : fs'.files[p] = fs.files[p]
                   /\ fs'.dirs = fs.dirs \ Emptied(fs, path)]_vars

\* a delete removed the day directory of its record and kept the month
\* directory, which holds another day
C5_Witness ==
    /\ last.op = "DeleteRecord"
    /\ last.err = Nil
    /\ RecordDir(last.record.Start) \notin fs.dirs
    /\ Dir(RecordDir(last.record.Start)) \in fs.dirs

\* the ByTimeRange rule for the day [date, next)
OverlapsDay(r, date, next) ==
    IF IsZero(r.End) THEN date <= r.Start /\ r.Start < next
    ELSE r.End > date /\ r.Start < next

\* C10: LoadDateRecordsExact returns the records of the prior day's and of
\* the target day's partition that overlap the target day, the prior day's
\* first; an open record of the target day counts from 00:00 on.
C10_ExactDayRecords ==
    last.op = "LoadDateRecordsExact" =>
        LET date == ToDate(last.date)
            next == date + HoursPerDay
            prior == LoadDateRecordsFiltered(fs, date - HoursPerDay, NoFilters, {}).records
            target == LoadDateRecordsFiltered(fs, date, NoFilters, {}).records
        IN  last.records = SelectSeq(prior \o target, LAMBDA r : OverlapsDay(r, date, next))

\* the start date of t lies within the inclusive date bound of the filters
InDateBound(filters, t) ==
    /\ IsZero(filters.Start) \/ ToDate(t) >= ToDate(filters.Start)
    /\ IsZero(filters.End) \/ ToDate(t) <= ToDate(filters.End)

\* the stored records a scan with the filters is to yield
Matching(f, filters) ==
    {r \in Stored(f) : InDateBound(filters, r.Start) /\ Filter(r, filters)}

\* C6: a scan that ran to the close of the queue without cancellation or
\* error, over an unchanged store, has yielded each stored record within the
\* date bound that passes the filters exactly once and nothing else; no day
\* partition outside the date bound is ever loaded.
C6_ScanYieldsTheMatches ==
    /\ \A p \in scan.visited :
           Len(p) = 3 => InDateBound(scan.filters, Date(p[1], p[2], p[3]))
    /\ (/\ cons.op \in {"LoadAllRecordsFiltered", "Caller"}
        /\ cons.pc = "returned"
        /\ cons.err = Nil
        /\ ~stop
        /\ ~scan.mutated) =>
           /\ \A i, j \in 1..Len(cons.records) : cons.records[i] = cons.records[j] => i = j
           /\ Range(cons.records) = Matching(fs, scan.filters)

\* a drained reverse scan yielded a record and pruned the day of another
C6_Witness ==
    /\ cons.op = "Caller"
    /\ cons.pc = "returned"
    /\ cons.err = Nil
    /\ ~stop
    /\ scan.reversed
    /\ cons.records # <<>>
    /\ \E r \in Stored(fs) : ~InDateBound(scan.filters, r.Start)

\* C7: the records a scan yields are in strictly descending order of start
\* time in reverse mode and in strictly ascending order otherwise.
C7_ScanOrder ==
    \A i, j \in 1..Len(scan.pushed) :
        (i < j /\ scan.pushed[i].Err = Nil /\ scan.pushed[j].Err = Nil) =>
            IF scan.reversed
            THEN scan.pushed[i].Record.Start > scan.pushed[j].Record.Start
            ELSE scan.pushed[i].Record.Start < scan.pushed[j].Record.Start

\* a reverse scan yielded two records of one day
C7_Witness ==
    /\ scan.reversed
    /\ Len(scan.pushed) = 2
    /\ scan.pushed[1].Err = Nil
    /\ scan.pushed[2].Err = Nil
    /\ RecordDir(scan.pushed[1].Record.Start) = RecordDir(scan.pushed[2].Record.Start)

\* C8: once FindLatestRecord has closed the stop channel the producer pushes
\* no further result and lists or loads no further directory.
C8_NothingAfterStop ==
    [][(stop /\ cons.op = "FindLatestRecord") =>
           scan'.pushed = scan.pushed /\ scan'.visited = scan.visited]_vars

\* C9: FindLatestRecord returns the stored record that passes cond with the
\* greatest start time, or none when no record passes; it takes one result
\* of a reverse scan, closes the stop channel and takes no more.
C9_FindLatestRecord ==
    (cons.op = "FindLatestRecord" /\ cons.pc = "returned" /\ cons.err = Nil) =>
        /\ cons.found <=> Matching(fs, scan.filters) # {}
        /\ cons.found =>
              /\ cons.record \in Matching(fs, scan.filters)
              /\ \A r \in Matching(fs, scan.filters) : r.Start <= cons.record.Start
              /\ stop
              /\ Len(scan.pushed) - Len(results.buf) = 1
        /\ ~cons.found => scan.pushed = <<>> /\ ~stop

\* FindLatestRecord returned the later of two records that pass, and the
\* other one stays in the queue
C9_Witness ==
    /\ cons.op = "FindLatestRecord"
    /\ cons.pc = "returned"
    /\ cons.found
    /\ results.buf # <<>>
    /\ \E r \in Matching(fs, scan.filters) : r.Start < cons.record.Start

\* the range [start, end) of a time filter, a zero bound being unbounded
InRange(t, start, end) ==
    /\ IsZero(start) \/ start <= t
    /\ IsZero(end) \/ t < end

\* the span [r.Start, r.End) of a closed record overlaps [start, end)
Overlaps(r, start, end) ==
    /\ IsZero(start) \/ start < r.End
    /\ IsZero(end) \/ r.Start < end

\* C11: FilterByTime(start, end) matches every record when both bounds are
\* zero; it matches an open record iff the record's start lies in
\* [start, end), and a closed record iff its span overlaps [start, end).
C11_FilterByTime ==
    last.op = "FilterByTime" =>
        LET r == last.record
        IN  /\ (IsZero(last.start) /\ IsZero(last.end)) => last.ok
            /\ IsZero(r.End) => (last.ok <=> InRange(r.Start, last.start, last.end))
            /\ ~IsZero(r.End) => (last.ok <=> Overlaps(r, last.start, last.end))

\* the time a new pause must not precede
InsertBound(r) == IF r.Pause = <<>> THEN r.Start ELSE Last(r.Pause).End

\* C12: InsertPause is rejected and leaves the pauses as they were when
\* start precedes the end of the last pause (the record's start when there
\* is no pause); otherwise the pause becomes the new last pause and the
\* pauses before it are unchanged.
C12_InsertPause ==
    last.op = "InsertPause" =>
        IF last.start < InsertBound(last.record)
        THEN last.err # Nil /\ last.after = last.record
        ELSE /\ last.err = Nil
             /\ Len(last.after.Pause) = Len(last.record.Pause) + 1
             /\ Last(last.after.Pause) = Pause(last.start, last.end, "n")
             /\ Front(last.after.Pause) = last.record.Pause
             /\ [last.after EXCEPT !.Pause = <<>>] = [last.record EXCEPT !.Pause = <<>>]

\* an insert was rejected for starting before the end of the last of two
\* pauses, at or after the start of the record
C12_Witness ==
    /\ last.op = "InsertPause"
    /\ last.err # Nil
    /\ Len(last.record.Pause) = 2
    /\ last.start >= last.record.Start

\* the consistency rule of a record
Consistent(r) ==
    /\ IsZero(r.End) \/ r.End >= r.Start
    /\ \A i \in 1..Len(r.Pause) :
           /\ r.Pause[i].Start >= r.Start
           /\ ~IsZero(r.End) => r.Pause[i].Start <= r.End /\ r.Pause[i].End <= r.End
           /\ i > 1 => /\ r.Pause[i - 1].Start < r.Pause[i].Start
                       /\ r.Pause[i - 1].End <= r.Pause[i].Start

\* C13: Check() succeeds iff the end is absent or >= start, the pauses are
\* in strictly chronological order of start, each pause starts at or after
\* the end of the pause before it, and each pause lies within the record's
\* span.
C13_Check ==
    last.op = "Check" => (last.err = Nil <=> Consistent(last.record))

\* the pause is open or ends after t
Unfinished(p, t) == IsZero(p.End) \/ p.End > t

\* C14: StopRecord(t) on an open record leaves it closed, with no open pause
\* and no pause ending after the new end; the trailing pauses that are open
\* or end after t are discarded and the end is the start of the earliest
\* discarded pause (t when none is discarded); the result is saved over the
\* record, so that LoadRecord of its start returns it.
C14_StopRecord ==
    [][(last'.op = "StopRecord" /\ last'.err = Nil) =>
          LET old == last'.before
              new == last'.record
              t == last'.end
              kept == Len(new.Pause)
          IN  /\ HasEnded(new)
              /\ \A i \in 1..kept : ~IsZero(new.Pause[i].End) /\ new.Pause[i].End <= new.End
              /\ kept <= Len(old.Pause)
              /\ new.Pause = SubSeq(old.Pause, 1, kept)
              /\ \A i \in (kept + 1)..Len(old.Pause) : Unfinished(old.Pause[i], t)
              /\ kept > 0 => ~Unfinished(old.Pause[kept], t)
              /\ new.End = IF kept < Len(old.Pause) THEN old.Pause[kept + 1].Start ELSE t
              /\ [new EXCEPT !.End = NoTime, !.Pause = <<>>]
                     = [old EXCEPT !.End = NoTime, !.Pause = <<>>]
              /\ LoadRecord(fs', old.Start, "none") = [err |-> Nil, record |-> new]]_vars

\* a record started at 09:00 and paused since 10:00 was stopped at 11:00:
\* it ends at 10:00 and has no pause
C14_Witness ==
    /\ last.op = "StopRecord"
    /\ last.err = Nil
    /\ Clock(last.before.Start) = 9
    /\ last.before.Pause = <<Pause(last.before.Start + 1, NoTime, "")>>
    /\ last.end = last.before.Start + 2
    /\ last.record.End = last.before.Start + 1
    /\ last.record.Pause = <<>>
    /\ LoadRecord(fs, last.before.Start, "none").record = last.record

\* C15: StopRecord fails with the no-running-record error exactly when the
\* store holds no open record, and then changes nothing; when some stored
\* record is open, StopRecord closes it.
C15_NoActiveRecord ==
    [][last'.op = "StopRecord" =>
          LET open == {r \in Stored(fs) : ~HasEnded(r)}
          IN  /\ last'.err = ErrNoRunning <=> open = {}
              /\ last'.err = ErrNoRunning => fs' = fs
              /\ open # {} =>
                     /\ last'.err = Nil
                     /\ last'.before \in open
                     /\ HasEnded(LoadRecord(fs', last'.before.Start, "none").record)]_vars

\* the projects reached from S by following parent links downwards
RECURSIVE WithChildren(_, _)
WithChildren(all, S) ==
    LET next == S \cup {d \in DOMAIN all : all[d].Parent \in S}
    IN  IF next = S THEN S ELSE WithChildren(all, next)

\* the summed duration of the stored records of a project
RECURSIVE OwnTime(_, _, _)
OwnTime(records, now, p) ==
    IF records = <<>> THEN 0
    ELSE (IF Head(records).Project = p THEN Duration(Head(records), now) ELSE 0)
         + OwnTime(Tail(records), now, p)

\* C16: for a non-empty requested subset the effective projects are the
\* subset and all transitive descendants of its members; Records holds
\* exactly the stored records of those projects, the totals have an entry
\* for exactly those projects, and before the roll-up each total is the time
\* of the project's own records.
C16_EffectiveProjects ==
    (rep.pc \in {"rollup", "done"} /\ rep.proj # {}) =>
        /\ rep.projects = WithChildren(rep.all, rep.proj)
        /\ DOMAIN rep.totals = rep.projects
        /\ rep.records = SelectSeq(rep.stored, LAMBDA r : r.Project \in rep.projects)
        /\ (rep.pc = "rollup" /\ rep.todo = rep.projects) =>
               \A p \in rep.projects : rep.totals[p] = OwnTime(rep.stored, rep.now, p)

\* a report on one named project took in its child, left a stored record of
\* the third project out and kept a record of the child
C16_Witness ==
    /\ rep.pc = "done"
    /\ Cardinality(rep.proj) = 1
    /\ Cardinality(rep.projects) = 2
    /\ \E d \in rep.projects \ rep.proj : rep.all[d].Parent \in rep.proj
    /\ \E i \in 1..Len(rep.stored) : rep.stored[i].Project \notin rep.projects
    /\ \E i \in 1..Len(rep.records) : rep.records[i].Project \notin rep.proj

\* the records of the results, in order
RECURSIVE RecordsOf(_)
RecordsOf(items) ==
    IF items = <<>> THEN <<>> ELSE <<Head(items).Record>> \o RecordsOf(Tail(items))

\* the producer has halted: all that is left of it is the deferred close of
\* the queue, or that close is done
Halted == scan.pc = "return" \/ (scan.pc = "done" /\ results.closed)

\* C18: an error item is the last item the scan ever enqueues (so there is
\* at most one), and with it the producer has halted, its one remaining step
\* being the close of the queue; a failure the walk met is enqueued when the
\* producer returns, and LoadAllRecordsFiltered returns it with exactly the
\* records yielded before.
C18_ErrorItemIsLast ==
    /\ \A i \in 1..Len(scan.pushed) :
           scan.pushed[i].Err # Nil => i = Len(scan.pushed) /\ Halted
    /\ (scan.pc \in {"return", "done"} /\ scan.err # Nil) =>
           scan.pushed # <<>> /\ Last(scan.pushed).Err = scan.err
    /\ (cons.op = "LoadAllRecordsFiltered" /\ cons.pc = "returned") =>
           /\ cons.err = scan.err
           /\ cons.records = RecordsOf(IF scan.err # Nil THEN Front(scan.pushed)
                                                        ELSE scan.pushed)

\* LoadAllRecordsFiltered returned the error of a day directory that could
\* not be listed together with the record yielded before it, and the queue
\* is closed
C18_Witness ==
    /\ cons.op = "LoadAllRecordsFiltered"
    /\ cons.pc = "returned"
    /\ cons.err = PathError("EACCES")
    /\ scan.unreadable = {RecordDir(T(1, 1, 2, 9))}
    /\ Len(cons.records) = 1
    /\ results.buf = <<>>
    /\ results.closed

\* C19: a directory with a name that is not a number, at the year, month or
\* day level, is skipped: no error item comes from it, and a drained scan
\* has yielded every stored record that passes the filters.
C19_OtherNamesSkipped ==
    /\ \A i \in 1..Len(scan.pushed) : scan.pushed[i].Err # ErrSyntax
    /\ (/\ cons.op = "LoadAllRecordsFiltered"
        /\ cons.pc = "returned"
        /\ scan.unreadable = {}) =>
           /\ cons.err = Nil
           /\ Range(cons.records) = Matching(fs, scan.filters)

\* C20: a day directory that is gone when the scan comes to load it counts
\* as a day without records: the scan neither ends with the error "no
\* records for date" nor enqueues an item that carries it.
C20_AbsentDayIsEmpty ==
    /\ scan.err # ErrNoRecords
    /\ \A i \in 1..Len(scan.pushed) : scan.pushed[i].Err # ErrNoRecords
    /\ cons.err # ErrNoRecords

\* the producer is at a push
AtPush == scan.pc \in {"push", "pusherr"}

\* C17: once the consumer has closed the stop channel and reads no more, no
\* producer stays at a push forever, whatever the queue holds and whether
\* the push is of a record or of an error the walk met after the signal; it
\* goes on to return and close the queue.
C17_CancelledProducerReturns ==
    (stop /\ cons.pc = "returned" /\ AtPush) ~> ~AtPush

\* C24: between calls of SaveRecord and DeleteRecord that ran to completion,
\* on a tree that began empty, no directory is empty: a day directory holds
\* a record file, a month directory a day directory and a year directory a
\* month directory.
C24_NoEmptyDirectory ==
    \A d \in fs.dirs :
        /\ Len(d) = 3 => \E p \in DOMAIN fs.files : Dir(p) = d
        /\ Len(d) < 3 => \E e \in fs.dirs : Len(e) = Len(d) + 1 /\ Dir(e) = d

\* C21: when two unforced SaveRecord calls for different records of one
\* start time, neither of which met an I/O error, have both returned, at
\* most one of them succeeded, the other returned the already-exists error,
\* and a call that succeeded left its record in the store.
C21_ConcurrentSaves ==
    (/\ \A g \in DOMAIN saves :
            saves[g].pc = "done" /\ ~saves[g].force /\ saves[g].fault = "none"
     /\ saves # NoSaves) =>
        /\ Cardinality({g \in DOMAIN saves : saves[g].err = Nil}) <= 1
        /\ \A g \in DOMAIN saves :
               IF saves[g].err = Nil
               THEN ReadBack(fs, RecordPath(saves[g].record.Start))
                        = [err |-> Nil, record |-> saves[g].record]
               ELSE saves[g].err = ErrAlreadyExists

\* at most the last pause of r is open
OnlyLastOpen(r) == \A i \in 1..(Len(r.Pause) - 1) : ~IsZero(r.Pause[i].End)

\* C22: after every call of InsertPause, EndPause or PopPause, accepted or
\* refused, on a record that began without a pause, at most the last pause
\* is open; EndPause fails and leaves the record as it was when there is no
\* pause or the last pause is closed; PopPause fails when there is no pause.
C22_OnlyLastPauseOpen ==
    [][held # <<>> =>
          /\ last'.op \in {"InsertPause", "EndPause", "PopPause"} =>
                 OnlyLastOpen(held'[1])
          /\ (/\ last'.op = "EndPause"
              /\ (held[1].Pause = <<>> \/ ~IsZero(Last(held[1].Pause).End))) =>
                 last'.err # Nil /\ held' = held
          /\ (last'.op = "PopPause" /\ held[1].Pause = <<>>) => ~last'.ok]_vars

\* the invariants of the data model within a record
DataModel(r) ==
    /\ ~IsZero(r.End) => r.End >= r.Start
    /\ \A i \in 1..(Len(r.Pause) - 1) :
           /\ r.Pause[i].Start <= r.Pause[i + 1].Start
           /\ r.Pause[i + 1].Start >= r.Pause[i].End
    /\ r.Pause # <<>> => r.Pause[1].Start >= r.Start
    /\ \A i \in 1..Len(r.Pause) :
           (~IsZero(r.End) /\ ~IsZero(r.Pause[i].End)) => r.Pause[i].End <= r.End

\* C23: the record a caller got from StartRecord and took through calls of
\* InsertPause, EndPause, PopPause and StopRecord meets the invariants of
\* the data model: end not before start, pauses in the order of their
\* starts, none starting before the end of the one before or before the
\* record's start, and no closed pause ending after the record's end.
C23_DataModelInvariants == held # <<>> => DataModel(held[1])

\* C25: after StopRecord(t) succeeded, the end of the record it saved is
\* not later than t.
C25_StopNotAfterEnd ==
    (last.op = "StopRecord" /\ last.err = Nil) =>
        ReadBack(fs, RecordPath(EditStart)).record.End <= last.end

\* C26: over one store whose files can be read, LatestRecord and
\* FindLatestRecord with a condition that is always true return the same:
\* the stored record with the greatest start time, or none when the store
\* holds no record.
C26_LatestLookupsAgree ==
    (/\ last.op = "LatestRecord"
     /\ cons.op = "FindLatestRecord"
     /\ cons.pc = "returned"
     /\ scan.unreadable = {}) =>
        /\ last.err = Nil /\ cons.err = Nil
        /\ last.found = cons.found
        /\ last.found => last.record = cons.record
        /\ last.found <=> Stored(fs) # {}
        /\ last.found => \A r \in Stored(fs) : r.Start <= last.record.Start

====
